---- MODULE Spec2Model ----
(***************************************************************************)
(* Model of mpv-handler-queue's playback dispatcher: plugins/play.rs       *)
(* (exec, fetch_direct_urls, handle_playlist_in_new_instance) together     *)
(* with the Config value it is handed (config.rs).                         *)
(*                                                                         *)
(* One invocation of exec is a sequential program; `pc` is its position.   *)
(* The resolver (yt-dlp), the confirmation dialog (zenity), the player     *)
(* (mpv) and the control socket are the environment: every call into them  *)
(* draws its outcome from the set of outcomes the call can produce.        *)
(***************************************************************************)
EXTENDS Integers, Sequences, FiniteSets, TLC

\* ---------------------------------------------------------------- bounds
\* Number of output lines the flat-playlist enumeration may print.
MaxLines == 3
\* Largest number the user may type into the confirmation dialog.
MaxCount == 4
\* Largest number of output lines one resolve call may print.
MaxOutLines == 3
\* Number of failed connect polls after which the spawned player may still
\* open its socket early; beyond them it opens it right before the last poll
\* or not in time.
MaxStartupPolls == 0

\* ------------------------------------------------------ program constants
\* for i in 0..15 (post-spawn connect polling)
ConnectAttempts == 15
\* sleep between two polling attempts, in ms
PollSleepMs == 200
\* sleep between load-append and set-title when enqueuing to an existing player
EnqueueSleepMs == 500
\* sleep between load-append and set-title in a freshly spawned player
AppendSleepMs == 50
\* zenity's exit status on timeout
ZenityTimeoutCode == 5
\* exit code reported when the player's status carries none
DefaultExitCode == 1
\* width of the exit code carried by Error::PlayerExited (u8)
ExitCodeModulus == 256

\* ------------------------------------------------------------ value sets
\* URL of the intent (proto.url) has source id 0; the url of the entry
\* printed on enumeration line i has source id i.
IntentId == 0
LineIds == 1..MaxLines

NoValue == <<"none", 0>>
\* the url string as given (not resolved)
SrcUrl(id) == <<"src", id>>
\* the direct video / audio urls the resolver printed for source id
VideoUrl(id) == <<"video", id>>
AudioUrl(id) == <<"audio", id>>
\* titles: taken from the enumeration line, printed by the resolver,
\* proto.v_title, or the url used as title
EntryTitle(id) == <<"entry_title", id>>
FetchedTitle(id) == <<"fetched_title", id>>
VTitle == <<"v_title", 0>>
UrlAsTitle(id) == <<"url_as_title", id>>

\* (title, url) pairs of playlist_entries
Entry(id) == [title |-> EntryTitle(id), url |-> SrcUrl(id), id |-> id]

\* kinds of enumeration output lines
LineKinds == {"entry", "deleted", "private", "malformed"}

VARIABLES
    pc,                  \* position in exec / handle_playlist_in_new_instance
    enqueue,             \* proto.enqueue == Some(true)
    socket_configured,   \* config.socket.is_some()
    explicit_playlist,   \* proto.url.contains("&list=")
    has_v_title,         \* proto.v_title.is_some()
    is_playlist,
    playlist_entries,
    total_entries,       \* playlist_entries.len() at classification (0 if not enumerated)
    enumerated,          \* history: the entries kept by the enumeration, before any truncation
    confirmation,        \* answer of the confirmation dialog, NoValue if not asked
    use_existing_socket,
    items,               \* items_to_enqueue / the entries handed to the playlist helper
    index,               \* loop position (1-based) in items
    pending,             \* commands built for the current item, not yet written
    attempt,             \* i of the polling loop
    stream,              \* control connection: "none", "open", "closed", "forgotten"
    peer,                \* who accepted the control connection
    listener,            \* who accepts connections on the socket address right now
    child,               \* spawned player: "none", "running", "killed", "reaped"
    options,             \* flags pushed on top of build_mpv_options
    positional,          \* trailing positional argument of the player
    path,                \* orchestration path taken
    sent,                \* commands written successfully, in order
    trace,               \* observable steps, in order
    result               \* Result<(), Error> of exec

vars == << pc, enqueue, socket_configured, explicit_playlist, has_v_title,
           is_playlist, playlist_entries, total_entries, enumerated,
           confirmation, use_existing_socket, items, index, pending, attempt, stream, peer,
           listener, child, options, positional, path, sent, trace, result >>

inputs == << enqueue, socket_configured, explicit_playlist, has_v_title >>
classify == << is_playlist, playlist_entries, total_entries, enumerated, confirmation >>
process == << child, options, positional >>
conn == << stream, peer >>

Ev(kind, n) == <<kind, n>>
Log(e) == trace' = Append(trace, e)

\* ------------------------------------------------- playlist detection
Min(a, b) == IF a < b THEN a ELSE b

\* Outcomes of `yt-dlp --flat-playlist --dump-json url`: the command cannot
\* be run, exits non-zero, or exits 0 having printed some lines.
EnumLineSeqs == UNION { [1..n -> LineKinds] : n \in 0..MaxLines }
EnumOutcomes ==
    { [status |-> "spawn_err", lines |-> << >>],
      [status |-> "nonzero", lines |-> << >>] }
    \cup { [status |-> "success", lines |-> l] : l \in EnumLineSeqs }

\* Variant of KeepsLine: the sentinel titles are not tested, every line that
\* has title and url strings is pushed.
KeepsLineSentinels(kind) == kind # "malformed"

\* A line is pushed iff it parses to an object with title and url strings
\* and the title is neither sentinel.
KeepsLine(kind) == kind = "entry"

\* A line is reported ("Skipping unavailable video") iff it has title and
\* url strings and the title is "[Deleted video]" or "[Private video]".
SkipsLine(kind) == kind \in {"deleted", "private"}

\* history of the lines the enumeration loop reported as skipped
RECURSIVE SkippedLines(_, _, _)
SkippedLines(lines, i, acc) ==
    IF i > Len(lines) THEN acc
    ELSE SkippedLines(lines, i + 1,
                      IF SkipsLine(lines[i]) THEN Append(acc, Ev("skip", i)) ELSE acc)

RECURSIVE PushLines(_, _, _)
PushLines(lines, i, acc) ==
    IF i > Len(lines) THEN acc
    ELSE PushLines(lines, i + 1,
                   IF KeepsLine(lines[i]) THEN Append(acc, Entry(i)) ELSE acc)

ParseEnumeration(out) ==
    IF out.status = "success" THEN PushLines(out.lines, 1, << >>) ELSE << >>

\* Variant of AsksConfirmation: off by one, a single entry counts as a playlist.
AsksConfirmationForOne(entries) == Len(entries) >= 1

\* if playlist_entries.len() > 1 { ...ask... }
AsksConfirmation(entries) == Len(entries) > 1

\* Outcomes of the zenity dialog: it cannot be run, or it exits with a code
\* (0 OK, 5 timeout, anything else / no code: cancelled) and the typed text.
NoCode == 0 - 1
CancelCode == 1
TypedTexts == { <<"num", n>> : n \in 0..MaxCount } \cup { <<"invalid", 0>> }
NotAsked == [status |-> "not_asked", code |-> NoCode, text |-> NoValue]
ZenityOutcomes ==
    { [status |-> "spawn_err", code |-> NoCode, text |-> NoValue] }
    \cup { [status |-> "exited", code |-> c, text |-> NoValue]
             : c \in {ZenityTimeoutCode, CancelCode, NoCode} }
    \cup { [status |-> "exited", code |-> 0, text |-> t] : t \in TypedTexts }

\* Variant of Truncate: keeps the last num entries instead of the first.
TruncateKeepsLast(entries, num) ==
    SubSeq(entries, Len(entries) - Min(num, Len(entries)) + 1, Len(entries))

\* playlist_entries.truncate(num)
Truncate(entries, num) == SubSeq(entries, 1, Min(num, Len(entries)))

\* Variant of ConfirmDecision: the count 0 is not set apart, it truncates
\* the entry list like every other count.
ConfirmDecisionZeroTruncates(z, entries) ==
    IF z.status = "spawn_err" THEN [is_playlist |-> FALSE, entries |-> entries]
    ELSE IF z.code = 0 THEN
        IF z.text[1] = "num"
        THEN [is_playlist |-> TRUE, entries |-> Truncate(entries, z.text[2])]
        ELSE [is_playlist |-> FALSE, entries |-> entries]
    ELSE IF z.code = ZenityTimeoutCode
        THEN [is_playlist |-> TRUE, entries |-> entries]
        ELSE [is_playlist |-> FALSE, entries |-> entries]

\* match confirmation_output { ... }: the playlist flag and the kept entries
ConfirmDecision(z, entries) ==
    IF z.status = "spawn_err" THEN [is_playlist |-> FALSE, entries |-> entries]
    ELSE IF z.code = 0 THEN
        IF z.text[1] = "num" THEN
            IF z.text[2] = 0
            THEN [is_playlist |-> TRUE, entries |-> entries]
            ELSE [is_playlist |-> TRUE, entries |-> Truncate(entries, z.text[2])]
        ELSE [is_playlist |-> FALSE, entries |-> entries]
    ELSE IF z.code = ZenityTimeoutCode
        THEN [is_playlist |-> TRUE, entries |-> entries]
        ELSE [is_playlist |-> FALSE, entries |-> entries]

\* exec, "Playlist Detection": the enumeration runs only for urls that
\* contain "&list=".
Enumerate ==
    /\ pc = "enumerate"
    /\ IF explicit_playlist
       THEN \E out \in EnumOutcomes :
              LET entries == ParseEnumeration(out) IN
              /\ playlist_entries' = entries
              /\ total_entries' = Len(entries)
              /\ enumerated' = entries
              /\ trace' = trace \o SkippedLines(out.lines, 1, << >>)
                                 \o << Ev("enumerate", Len(entries)) >>
              /\ pc' = IF out.status = "success" /\ AsksConfirmation(entries)
                       THEN "confirm" ELSE "socket_check"
       ELSE /\ pc' = "socket_check"
            /\ UNCHANGED << playlist_entries, total_entries, enumerated, trace >>
    /\ UNCHANGED << inputs, is_playlist, confirmation, use_existing_socket,
                    items, index, pending, attempt, conn, listener, process,
                    path, sent, result >>

Confirm ==
    /\ pc = "confirm"
    /\ \E z \in ZenityOutcomes :
         LET d == ConfirmDecision(z, playlist_entries) IN
         /\ confirmation' = z
         /\ is_playlist' = d.is_playlist
         /\ playlist_entries' = d.entries
         /\ Log(Ev("confirm", total_entries))
    /\ pc' = "socket_check"
    /\ UNCHANGED << inputs, total_entries, enumerated, use_existing_socket,
                    items, index, pending, attempt, conn, listener, process, path, sent,
                    result >>

\* ------------------------------------------------------- resolver gateway
\* Outcomes of `yt-dlp -f fmt --get-url --check-formats --get-title url`.
ResolveOutcomes ==
    { [status |-> "spawn_err", lines |-> 0], [status |-> "nonzero", lines |-> 0] }
    \cup { [status |-> "success", lines |-> n] : n \in 0..MaxOutLines }

\* the call failed: yt-dlp could not be run, exited non-zero, or printed
\* fewer than the two lines (title, video url) a resolution consists of
ResolveFails(o) == o.status \in {"spawn_err", "nonzero"} \/ o.lines \in {0, 1}

\* Variant of fetch_direct_urls: off by one, a single output line is taken
\* for a resolution.
fetch_direct_urls_one_line(url, default_title, o) ==
    IF o.status = "success" /\ o.lines >= 1
    THEN [title |-> FetchedTitle(url[2]),
          video |-> VideoUrl(url[2]),
          audio |-> IF o.lines >= 3 THEN AudioUrl(url[2]) ELSE NoValue]
    ELSE [title |-> default_title, video |-> url, audio |-> NoValue]

\* fetch_direct_urls: (title, video_url, audio_url)
fetch_direct_urls(url, default_title, o) ==
    IF o.status = "success" /\ o.lines >= 2
    THEN [title |-> FetchedTitle(url[2]),
          video |-> VideoUrl(url[2]),
          audio |-> IF o.lines >= 3 THEN AudioUrl(url[2]) ELSE NoValue]
    ELSE [title |-> default_title, video |-> url, audio |-> NoValue]

\* ------------------------------------------------------- control commands
\* json!({ "command": ["loadfile", url, mode, { "title": .., "audio-file": .. }] })
\* `item` is the position in the item list the command was built for and
\* `to` the process that accepted the connection it was written on.
LoadFile(url, mode, title, audio, item) ==
    [verb |-> "loadfile", url |-> url, mode |-> mode, title |-> title,
     audio |-> audio, item |-> item, to |-> "none"]

\* json!({ "command": ["set_property", "playlist/-1/title", title] })
SetPlaylistTitle(title, item) ==
    [verb |-> "set_property", url |-> NoValue, mode |-> "none", title |-> title,
     audio |-> NoValue, item |-> item, to |-> "none"]

\* UnixStream::connect(socket_path) succeeds iff some process listens there
Connects(l) == l # "none"

Ok == <<"Ok", 0>>
IoError == <<"Io", 0>>
PlayerRunFailed == <<"PlayerRunFailed", 0>>
SocketConnectionFailed == <<"SocketConnectionFailed", 0>>
PlayerExited(code) == <<"PlayerExited", code>>

\* history of one resolve call for item n, and of its failure
LogResolve(n, o) ==
    trace' = trace \o (IF ResolveFails(o)
                       THEN << Ev("resolve", n), Ev("resolve_failed", n) >>
                       ELSE << Ev("resolve", n) >>)

\* a successful stream.write_all(cmd)
Written(cmd) ==
    /\ sent' = Append(sent, [cmd EXCEPT !.to = peer])
    /\ Log(Ev("write_ok", cmd.item))

\* ------------------------------------------------------------ socket check
\* if UnixStream::connect(socket_path).is_ok() { use_existing_socket = true }
ProbeResult(l) == Connects(l)

\* Variant of ProbesSocket: the probe is made whether or not the intent
\* asked to enqueue.
ProbesSocketAlways == socket_configured

\* if proto.enqueue == Some(true) { if let Some(socket_path) = &config.socket {
ProbesSocket == enqueue /\ socket_configured

\* exec, "Socket Check": one connect, the stream is dropped at once.
SocketCheck ==
    /\ pc = "socket_check"
    /\ IF ProbesSocket
       THEN /\ use_existing_socket' = ProbeResult(listener)
            /\ Log(Ev(IF Connects(listener) THEN "probe_ok" ELSE "probe_fail", 0))
       ELSE UNCHANGED << use_existing_socket, trace >>
    /\ pc' = "main"
    /\ UNCHANGED << inputs, classify, items, index, pending, attempt, conn,
                    listener, process, path, sent, result >>

\* items_to_enqueue
ItemsToEnqueue ==
    IF is_playlist THEN playlist_entries
    ELSE << [title |-> IF has_v_title THEN VTitle ELSE UrlAsTitle(IntentId),
             url |-> SrcUrl(IntentId), id |-> IntentId] >>

\* if use_existing_socket { .. if let Ok(stream) = connect(..) { loop } }
\* and the fall through to the launch when that connect fails.
TakesExisting == use_existing_socket /\ socket_configured /\ Connects(listener)

Route ==
    /\ pc = "main"
    /\ IF use_existing_socket
       THEN /\ items' = ItemsToEnqueue
            /\ IF socket_configured
               THEN Log(Ev(IF Connects(listener) THEN "reconnect_ok" ELSE "reconnect_fail", 0))
               ELSE UNCHANGED trace
            /\ IF TakesExisting
               THEN /\ stream' = "open"
                    /\ peer' = listener
                    /\ path' = "EnqueueExisting"
                    /\ index' = 1
                    /\ pc' = "enq_next"
               ELSE /\ pc' = "launch"
                    /\ UNCHANGED << conn, path, index >>
       ELSE /\ pc' = "launch"
            /\ UNCHANGED << items, conn, path, index, trace >>
    /\ UNCHANGED << inputs, classify, use_existing_socket, pending, attempt,
                    listener, process, sent, result >>

\* ------------------------------------------------------- enqueue existing
\* Variant of EnqueueMode: the existing player is told to replace.
EnqueueModeReplace == "replace"

\* mode of the loadfile command sent to an already running player
EnqueueMode == "append"

\* body of the for loop up to the two commands
EnqueueResolve ==
    /\ pc = "enq_next"
    /\ index <= Len(items)
    /\ \E o \in ResolveOutcomes :
         LET it == items[index]
             r == fetch_direct_urls(it.url, it.title, o)
             display_title == IF is_playlist THEN it.title ELSE r.title
         IN /\ pending' = << LoadFile(r.video, EnqueueMode, display_title, r.audio, index),
                             SetPlaylistTitle(display_title, index) >>
            /\ LogResolve(index, o)
    /\ pc' = "enq_load"
    /\ UNCHANGED << inputs, classify, use_existing_socket, items, index, attempt,
                    conn, listener, process, path, sent, result >>

\* Variant of EnqueueWriteFailed: the failed write is skipped over and the
\* loop goes on with the next item.
EnqueueWriteIgnored ==
    /\ Log(Ev("write_fail", index))
    /\ index' = index + 1
    /\ pc' = "enq_next"
    /\ UNCHANGED << sent, result, conn >>

\* `?` on a failed write: exec returns the error, the stream is dropped
EnqueueWriteFailed ==
    /\ Log(Ev("write_fail", index))
    /\ result' = IoError
    /\ stream' = "closed"
    /\ pc' = "done"
    /\ UNCHANGED << sent, index, peer >>

EnqueueLoad ==
    /\ pc = "enq_load"
    /\ \/ /\ Written(pending[1])
          /\ pc' = "enq_sleep"
          /\ UNCHANGED << result, conn, index >>
       \/ EnqueueWriteFailed
    /\ UNCHANGED << inputs, classify, use_existing_socket, items, pending,
                    attempt, listener, process, path >>

\* Variant of EnqueueSleep: the title is written right after the load.
EnqueueNoSleep ==
    /\ pc = "enq_sleep"
    /\ pc' = "enq_title"
    /\ UNCHANGED << inputs, classify, use_existing_socket, items, index, pending,
                    attempt, conn, listener, process, path, sent, trace, result >>

\* std::thread::sleep(500 ms) between the load-append and its title
EnqueueSleep ==
    /\ pc = "enq_sleep"
    /\ Log(Ev("sleep", EnqueueSleepMs))
    /\ pc' = "enq_title"
    /\ UNCHANGED << inputs, classify, use_existing_socket, items, index, pending,
                    attempt, conn, listener, process, path, sent, result >>

EnqueueTitle ==
    /\ pc = "enq_title"
    /\ \/ /\ Written(pending[2])
          /\ index' = index + 1
          /\ pc' = "enq_next"
          /\ UNCHANGED << result, conn >>
       \/ EnqueueWriteFailed
    /\ UNCHANGED << inputs, classify, use_existing_socket, items, pending,
                    attempt, listener, process, path >>

\* return Ok(()) after the loop
EnqueueReturn ==
    /\ pc = "enq_next"
    /\ index > Len(items)
    /\ result' = Ok
    /\ stream' = "closed"
    /\ Log(Ev("close", 0))
    /\ pc' = "done"
    /\ UNCHANGED << inputs, classify, use_existing_socket, items, index, pending,
                    attempt, peer, listener, process, path, sent >>

\* ------------------------------------------------------------ launch new
IdleFlag == "--idle=yes"
IpcFlag == "--input-ipc-server"

\* Variant of IpcOptions: the socket flag is passed whenever an address is
\* configured, whether or not the intent asked to enqueue.
IpcOptionsAlways == IF socket_configured THEN {IpcFlag} ELSE {}

\* if proto.enqueue == Some(true) { if let Some(socket_path) = &config.socket { push } }
IpcOptions == IF enqueue /\ socket_configured THEN {IpcFlag} ELSE {}

\* "New Instance for Playlist": flags, command.spawn(), then the helper
LaunchPlaylist ==
    /\ pc = "launch"
    /\ is_playlist
    /\ path' = "LaunchNewPlaylist"
    /\ options' = {IdleFlag} \cup IpcOptions
    /\ \/ /\ child' = "running"
          /\ Log(Ev("spawn_ok", 0))
          /\ items' = playlist_entries
          /\ attempt' = 0
          /\ pc' = IF socket_configured THEN "hp_connect" ELSE "wait"
          /\ UNCHANGED result
       \/ /\ Log(Ev("spawn_fail", 0))
          /\ result' = PlayerRunFailed
          /\ pc' = "done"
          /\ UNCHANGED << child, items, attempt >>
    /\ UNCHANGED << inputs, classify, use_existing_socket, index, pending, conn,
                    listener, positional, sent >>

\* "New Instance for Single Video": flags, `--` url, command.status()
LaunchSingle ==
    /\ pc = "launch"
    /\ ~is_playlist
    /\ path' = "LaunchNewSingle"
    /\ options' = IpcOptions
    /\ positional' = SrcUrl(IntentId)
    /\ \/ /\ child' = "running"
          /\ Log(Ev("spawn_ok", 0))
          /\ pc' = "wait_single"
          /\ UNCHANGED result
       \/ /\ Log(Ev("spawn_fail", 0))
          /\ result' = PlayerRunFailed
          /\ pc' = "done"
          /\ UNCHANGED child
    /\ UNCHANGED << inputs, classify, use_existing_socket, items, index, pending,
                    attempt, conn, listener, sent >>

\* ------------------------------------- handle_playlist_in_new_instance
\* one iteration of `for i in 0..15`: the connect
PollConnect ==
    /\ pc = "hp_connect"
    /\ IF Connects(listener)
       THEN /\ stream' = "open"
            /\ peer' = listener
            /\ Log(Ev("connect_ok", attempt))
            /\ pc' = "hp_first"
       ELSE /\ Log(Ev("connect_fail", attempt))
            /\ pc' = "hp_poll_sleep"
            /\ UNCHANGED conn
    /\ UNCHANGED << inputs, classify, use_existing_socket, items, index, pending,
                    attempt, listener, process, path, sent, result >>

\* Variant of PollSleep: off by one, the loop makes one attempt too many.
PollSleepOneMore ==
    /\ pc = "hp_poll_sleep"
    /\ Log(Ev("sleep", PollSleepMs))
    /\ attempt' = attempt + 1
    /\ pc' = IF attempt + 1 <= ConnectAttempts THEN "hp_connect" ELSE "hp_no_stream"
    /\ UNCHANGED << inputs, classify, use_existing_socket, items, index, pending,
                    conn, listener, process, path, sent, result >>

\* the sleep that follows a failed connect, and the loop's next i
PollSleep ==
    /\ pc = "hp_poll_sleep"
    /\ Log(Ev("sleep", PollSleepMs))
    /\ attempt' = attempt + 1
    /\ pc' = IF attempt + 1 < ConnectAttempts THEN "hp_connect" ELSE "hp_no_stream"
    /\ UNCHANGED << inputs, classify, use_existing_socket, items, index, pending,
                    conn, listener, process, path, sent, result >>

\* Variant of KillIdle: the helper gives up on the socket without killing
\* the player and without an error, so exec goes on to wait.
KillIdleFallsThrough ==
    /\ pc = "hp_no_stream"
    /\ pc' = "wait"
    /\ UNCHANGED << inputs, classify, use_existing_socket, items, index, pending,
                    attempt, conn, listener, process, path, sent, trace, result >>

\* else { child.kill().ok(); return Err(Error::SocketConnectionFailed) }
KillIdle ==
    /\ pc = "hp_no_stream"
    /\ child' = "killed"
    /\ Log(Ev("kill", 0))
    /\ result' = SocketConnectionFailed
    /\ pc' = "done"
    /\ UNCHANGED << inputs, classify, use_existing_socket, items, index, pending,
                    attempt, conn, listener, options, positional, path, sent >>

\* Variant of FirstMode: the first item is appended like the others.
FirstModeAppend == "append"

\* mode of the first loadfile written to the spawned player
FirstMode == "replace"

\* 1. load the first video: playlist_entries[0] indexes out of bounds (panic)
\* on an empty list; a failed write returns through `?`, dropping the stream.
LoadFirst ==
    /\ pc = "hp_first"
    /\ IF Len(items) = 0
       THEN /\ result' = <<"Panic", 0>>
            /\ stream' = "closed"
            /\ pc' = "done"
            /\ UNCHANGED << sent, trace, index, pending, peer >>
       ELSE /\ pending' = << LoadFile(items[1].url, FirstMode, items[1].title, NoValue, 1) >>
            /\ \/ /\ Written(pending'[1])
                  /\ index' = 2
                  /\ pc' = "hp_next"
                  /\ UNCHANGED << result, conn >>
               \/ /\ Log(Ev("write_fail", 1))
                  /\ result' = IoError
                  /\ stream' = "closed"
                  /\ pc' = "done"
                  /\ UNCHANGED << sent, index, peer >>
    /\ UNCHANGED << inputs, classify, use_existing_socket, items, attempt,
                    listener, process, path >>

\* 2. body of `for (title, url) in playlist_entries.iter().skip(1)` up to
\* the two commands
AppendResolve ==
    /\ pc = "hp_next"
    /\ index <= Len(items)
    /\ \E o \in ResolveOutcomes :
         LET it == items[index]
             r == fetch_direct_urls(it.url, it.title, o)
         IN /\ pending' = << LoadFile(r.video, "append", r.title, r.audio, index),
                             SetPlaylistTitle(r.title, index) >>
            /\ LogResolve(index, o)
    /\ pc' = "hp_load"
    /\ UNCHANGED << inputs, classify, use_existing_socket, items, index, attempt,
                    conn, listener, process, path, sent, result >>

\* Variant of AppendWriteFailed: the failed write is logged but the loop
\* goes on with the next item instead of breaking.
AppendWriteIgnored ==
    /\ Log(Ev("write_fail", index))
    /\ index' = index + 1
    /\ pc' = "hp_next"
    /\ UNCHANGED sent

\* if let Err(e) = s.write_all(..) { eprintln!(..); break; }
AppendWriteFailed ==
    /\ Log(Ev("write_fail", index))
    /\ pc' = "hp_forget"
    /\ UNCHANGED << sent, index >>

AppendLoad ==
    /\ pc = "hp_load"
    /\ \/ /\ Written(pending[1])
          /\ pc' = "hp_sleep"
          /\ UNCHANGED index
       \/ AppendWriteFailed
    /\ UNCHANGED << inputs, classify, use_existing_socket, items, pending,
                    attempt, conn, listener, process, path, result >>

\* Variant of AppendSleep: after the sleep the loop goes on with the next
\* item, the title assignment is left out.
AppendSleepSkipsTitle ==
    /\ pc = "hp_sleep"
    /\ Log(Ev("sleep", AppendSleepMs))
    /\ index' = index + 1
    /\ pc' = "hp_next"
    /\ UNCHANGED << inputs, classify, use_existing_socket, items, pending,
                    attempt, conn, listener, process, path, sent, result >>

\* std::thread::sleep(50 ms) between the load-append and its title
AppendSleep ==
    /\ pc = "hp_sleep"
    /\ Log(Ev("sleep", AppendSleepMs))
    /\ pc' = "hp_title"
    /\ UNCHANGED << inputs, classify, use_existing_socket, items, index, pending,
                    attempt, conn, listener, process, path, sent, result >>

AppendTitle ==
    /\ pc = "hp_title"
    /\ \/ /\ Written(pending[2])
          /\ index' = index + 1
          /\ pc' = "hp_next"
       \/ AppendWriteFailed
    /\ UNCHANGED << inputs, classify, use_existing_socket, items, pending,
                    attempt, conn, listener, process, path, result >>

\* the loop has run out of items
AppendDone ==
    /\ pc = "hp_next"
    /\ index > Len(items)
    /\ pc' = "hp_forget"
    /\ UNCHANGED << inputs, classify, use_existing_socket, items, index, pending,
                    attempt, conn, listener, process, path, sent, trace, result >>

\* std::mem::forget(s); Ok(())
ForgetStream ==
    /\ pc = "hp_forget"
    /\ stream' = "forgotten"
    /\ Log(Ev("forget", 0))
    /\ pc' = "wait"
    /\ UNCHANGED << inputs, classify, use_existing_socket, items, index, pending,
                    attempt, peer, listener, process, path, sent, result >>

\* ------------------------------------------------------------------ wait
\* exit codes a player may end with
ExitCodes == {0, 1, 2, 255}
WaitOutcomes ==
    { [kind |-> "err", code |-> NoCode], [kind |-> "signal", code |-> NoCode] }
    \cup { [kind |-> "exit", code |-> c] : c \in ExitCodes }

\* Variant of ExitMapping: a status without a code is reported as code 0.
ExitMappingDefaultZero(w) ==
    IF w.kind = "err" THEN PlayerRunFailed
    ELSE IF w.kind = "exit" /\ w.code = 0 THEN Ok
    ELSE PlayerExited((IF w.kind = "exit" THEN w.code ELSE 0) % ExitCodeModulus)

\* map_err(Error::PlayerRunFailed)?; if !status.success() { return
\* Err(Error::PlayerExited(status.code().unwrap_or(1) as u8)) } Ok(())
ExitMapping(w) ==
    IF w.kind = "err" THEN PlayerRunFailed
    ELSE IF w.kind = "exit" /\ w.code = 0 THEN Ok
    ELSE PlayerExited((IF w.kind = "exit" THEN w.code ELSE DefaultExitCode)
                      % ExitCodeModulus)

\* history of what the wait returned: an error, death by signal, or a code
WaitEvent(w) ==
    IF w.kind = "err" THEN Ev("wait_err", 0)
    ELSE IF w.kind = "signal" THEN Ev("exit_signal", 0)
    ELSE Ev("exit_code", w.code)

Reap(w) ==
    /\ trace' = trace \o << Ev("wait", 0), WaitEvent(w) >>
    /\ child' = IF w.kind = "err" THEN child ELSE "reaped"
    /\ result' = ExitMapping(w)
    /\ pc' = "done"

\* child.wait() after the helper returned Ok
WaitPlaylist ==
    /\ pc = "wait"
    /\ \E w \in WaitOutcomes : Reap(w)
    /\ UNCHANGED << inputs, classify, use_existing_socket, items, index, pending,
                    attempt, conn, listener, options, positional, path, sent >>

\* the waiting half of command.status()
WaitSingle ==
    /\ pc = "wait_single"
    /\ \E w \in WaitOutcomes : Reap(w)
    /\ UNCHANGED << inputs, classify, use_existing_socket, items, index, pending,
                    attempt, conn, listener, options, positional, path, sent >>

\* ------------------------------------------------------------ environment
\* positions of exec from which a connect to the socket address can follow
ConnectAhead ==
    {"enumerate", "confirm", "socket_check", "main", "launch", "hp_connect",
     "hp_poll_sleep"}

\* a player that was listening on the socket address goes away; the address
\* is looked at by connects only
ExistingPlayerStops ==
    /\ pc \in ConnectAhead
    /\ listener = "existing"
    /\ listener' = "none"
    /\ UNCHANGED << pc, inputs, classify, use_existing_socket, items, index,
                    pending, attempt, conn, process, path, sent, trace, result >>

\* connect polls right before which the spawned player may open its socket
StartupPolls == (0..MaxStartupPolls) \cup {ConnectAttempts - 1}

\* the spawned player, told --input-ipc-server, binds the socket address;
\* when it does so matters only to the connect poll that follows
SpawnedPlayerListens ==
    /\ pc = "hp_connect"
    /\ attempt \in StartupPolls
    /\ child = "running"
    /\ IpcFlag \in options
    /\ listener # "spawned"
    /\ listener' = "spawned"
    /\ UNCHANGED << pc, inputs, classify, use_existing_socket, items, index,
                    pending, attempt, conn, process, path, sent, trace, result >>

\* ------------------------------------------------------------------ spec
Init ==
    /\ pc = "enumerate"
    /\ enqueue \in BOOLEAN
    /\ socket_configured \in BOOLEAN
    /\ explicit_playlist \in BOOLEAN
    /\ has_v_title \in BOOLEAN
    /\ is_playlist = FALSE
    /\ playlist_entries = << >>
    /\ total_entries = 0
    /\ enumerated = << >>
    /\ confirmation = NotAsked
    /\ use_existing_socket = FALSE
    /\ items = << >>
    /\ index = 0
    /\ pending = << >>
    /\ attempt = 0
    /\ stream = "none"
    /\ peer = "none"
    /\ listener \in {"none", "existing"}
    /\ child = "none"
    /\ options = {}
    /\ positional = NoValue
    /\ path = "none"
    /\ sent = << >>
    /\ trace = << >>
    /\ result = NoValue


Next ==
    \/ Enumerate
    \/ Confirm
    \/ SocketCheck
    \/ Route
    \/ EnqueueResolve
    \/ EnqueueLoad
    \/ EnqueueSleep
    \/ EnqueueTitle
    \/ EnqueueReturn
    \/ LaunchPlaylist
    \/ LaunchSingle
    \/ PollConnect
    \/ PollSleep
    \/ KillIdle
    \/ LoadFirst
    \/ AppendResolve
    \/ AppendLoad
    \/ AppendSleep
    \/ AppendTitle
    \/ AppendDone
    \/ ForgetStream
    \/ WaitPlaylist
    \/ WaitSingle
    \/ ExistingPlayerStops
    \/ SpawnedPlayerListens

Spec == Init /\ [][Next]_vars

\* ------------------------------------------------------------ properties
Happened(kind) == \E i \in 1..Len(trace) : trace[i][1] = kind
Count(kind) == Cardinality({ i \in 1..Len(trace) : trace[i][1] = kind })
Loads == { i \in 1..Len(sent) : sent[i].verb = "loadfile" }

\* C1: a loadfile command with mode "replace" is only ever written to a
\* connection accepted by the player this invocation spawned, never to a
\* player that was already listening on the control-socket address.
C1_ReplaceOnlyToSpawnedPlayer ==
    \A i \in Loads : sent[i].mode = "replace" => sent[i].to = "spawned"

\* C2: once exec has spawned a player process it reaches the wait on that
\* process before it returns, whatever the enqueue outcome.
C2_SpawnedPlayerAlwaysWaited ==
    (pc = "done" /\ Happened("spawn_ok")) => Happened("wait")

\* C3: in LaunchNew/Playlist, a successful spawn followed by a polling loop
\* in which every connect attempt fails ends with the player killed and the
\* result SocketConnectionFailed (not PlayerExited); no other path ends in
\* SocketConnectionFailed.
PollExhausted == Count("connect_fail") = ConnectAttempts /\ ~Happened("connect_ok")

C3_SocketConnectionFailedOnlyAfterFailedPolling ==
    /\ (pc = "done" /\ path = "LaunchNewPlaylist" /\ Happened("spawn_ok") /\ PollExhausted)
          => /\ result = SocketConnectionFailed
             /\ child = "killed"
             /\ Happened("kill")
             /\ ~Happened("wait")
    /\ result = SocketConnectionFailed
          => /\ path = "LaunchNewPlaylist"
             /\ Happened("spawn_ok")
             /\ PollExhausted
             /\ sent = << >>

C3_Witness ==
    /\ pc = "done"
    /\ result = SocketConnectionFailed
    /\ child = "killed"
    /\ Count("connect_fail") = ConnectAttempts

\* C4: in an enqueue burst, when a write for the k-th item fails, exactly
\* the k-1 earlier items have been sent, and no resolve call and no write
\* for any later item is attempted.
FullySent(k) ==
    /\ \E i \in Loads : sent[i].item = k
    /\ \A i \in Loads : (sent[i].item = k /\ sent[i].mode = "append")
          => \E j \in (i + 1)..Len(sent) :
                sent[j].verb = "set_property" /\ sent[j].item = k
BurstEvents == {"resolve", "write_ok", "write_fail"}

C4_FailedWriteEndsBurst ==
    \A p \in 1..Len(trace) :
        trace[p][1] = "write_fail" =>
            LET k == trace[p][2] IN
            /\ { n \in 1..Len(items) : FullySent(n) } = 1..(k - 1)
            /\ \A q \in (p + 1)..Len(trace) : trace[q][1] \notin BurstEvents
            /\ \A q \in 1..Len(trace) : trace[q][1] \in BurstEvents => trace[q][2] <= k
            /\ \A i \in 1..Len(sent) : sent[i].item <= k

C4_Witness ==
    /\ pc = "done"
    /\ path = "LaunchNewPlaylist"
    /\ Len(items) = 3
    /\ \E p \in 1..Len(trace) : trace[p] = Ev("write_fail", 2)
    /\ Happened("wait")

\* C5: a failed write on item k >= 2 of an enqueue burst (EnqueueExisting
\* or LaunchNew/Playlist) ends the burst but does not make the invocation
\* end in failure because of that write.
C5_LateWriteFailureNotEscalated ==
    (\E p \in 1..Len(trace) : trace[p][1] = "write_fail" /\ trace[p][2] >= 2)
        => result # IoError

\* C6 (as stated): exec takes EnqueueExisting, spawning no process, iff
\* enqueueRequested is set and the single probe connect succeeds; otherwise
\* LaunchNew - also when the player stops accepting connections between
\* the probe and the following connect.
C6_RouteDecidedByProbeAlone ==
    path # "none" =>
        /\ (path = "EnqueueExisting") <=> (enqueue /\ Happened("probe_ok"))
        /\ path = "EnqueueExisting" => child = "none"

\* C6 (amended): exec takes EnqueueExisting, spawning no process, iff
\* enqueueRequested is set, the single non-retried probe connect succeeds
\* and the connect that follows it succeeds too; in every other case
\* (the second connect failing included) it takes LaunchNew.
C6_RouteDecidedByProbeAndConnect ==
    /\ Count("probe_ok") + Count("probe_fail") <= 1
    /\ Count("reconnect_ok") + Count("reconnect_fail") <= 1
    /\ pc = "done" => path # "none"
    /\ path # "none" =>
        /\ (path = "EnqueueExisting")
              <=> (enqueue /\ Happened("probe_ok") /\ Happened("reconnect_ok"))
        /\ path = "EnqueueExisting"
              => /\ child = "none"
                 /\ ~Happened("spawn_ok") /\ ~Happened("spawn_fail")
                 /\ \A i \in 1..Len(sent) : sent[i].to = "existing"
        /\ path # "EnqueueExisting"
              => /\ path \in {"LaunchNewPlaylist", "LaunchNewSingle"}
                 /\ Happened("spawn_ok") \/ Happened("spawn_fail")

C6_Witness ==
    /\ pc = "done"
    /\ enqueue
    /\ Happened("probe_ok")
    /\ Happened("reconnect_fail")
    /\ path = "LaunchNewPlaylist"
    /\ Happened("spawn_ok")

\* C7: when the enumeration keeps at most one entry (resolver failure and
\* empty output included) the SingleItem path is followed: the confirmation
\* is never asked, no idle-start flag and no load-replace are issued, and
\* the item played or enqueued is the original intent url.
C7_AtMostOneEntryIsSingleItem ==
    Len(enumerated) <= 1 =>
        /\ ~Happened("confirm")
        /\ confirmation = NotAsked
        /\ ~is_playlist
        /\ path # "LaunchNewPlaylist"
        /\ IdleFlag \notin options
        /\ \A i \in Loads : sent[i].mode # "replace" /\ sent[i].url[2] = IntentId
        /\ \A q \in 1..Len(trace) : trace[q][1] = "resolve" => items[trace[q][2]].id = IntentId
        /\ Happened("spawn_ok") => positional = SrcUrl(IntentId)

C7_Witness ==
    /\ pc = "done"
    /\ explicit_playlist
    /\ Len(enumerated) = 1
    /\ path = "EnqueueExisting"
    /\ Len(sent) = 2
    /\ sent[1].url[2] = IntentId

\* C8: for a playlist of L entries and a count N > 0 typed at the
\* confirmation, the entries for which commands are sent (EnqueueExisting
\* and LaunchNew/Playlist, no write failing) are exactly the first
\* min(N, L) enumerated entries in their order; no entry beyond that
\* position is ever resolved or sent, and the list is never re-expanded.
CountTyped ==
    /\ confirmation.status = "exited"
    /\ confirmation.code = 0
    /\ confirmation.text[1] = "num"
TypedCount == confirmation.text[2]
Kept == Min(TypedCount, Len(enumerated))
BurstComplete ==
    /\ ~Happened("write_fail")
    /\ \/ path = "EnqueueExisting" /\ pc = "done"
       \/ path = "LaunchNewPlaylist" /\ Happened("forget")
LoadedIds == [ i \in 1..Cardinality(Loads) |->
                 sent[CHOOSE j \in Loads : Cardinality({ m \in Loads : m <= j }) = i].url[2] ]

C8_TruncationKeepsFirstN ==
    (CountTyped /\ TypedCount > 0) =>
        /\ playlist_entries = SubSeq(enumerated, 1, Kept)
        /\ items \in {<< >>, playlist_entries}
        /\ \A i \in 1..Len(sent) :
              /\ sent[i].item <= Kept
              /\ sent[i].verb = "loadfile" => sent[i].url[2] = enumerated[sent[i].item].id
        /\ \A q \in 1..Len(trace) : trace[q][1] = "resolve" => trace[q][2] <= Kept
        /\ BurstComplete => LoadedIds = [ i \in 1..Kept |-> enumerated[i].id ]

C8_Witness ==
    /\ CountTyped
    /\ TypedCount = 2
    /\ Len(enumerated) = 3
    /\ enumerated[1].id = 1 /\ enumerated[2].id = 2
    /\ path = "LaunchNewPlaylist"
    /\ BurstComplete
    /\ LoadedIds = << 1, 2 >>

\* C9: for a playlist of more than one entry, a typed count N > 0 keeps the
\* playlist truncated to N; a typed 0 or a timeout keeps all entries as a
\* playlist; cancel, invalid input or an unavailable dialog demotes to
\* SingleItem, and the single item played or enqueued is then the first
\* enumerated entry.
KeepAllAnswer ==
    /\ confirmation.status = "exited"
    /\ \/ confirmation.code = 0 /\ confirmation.text = <<"num", 0>>
       \/ confirmation.code = ZenityTimeoutCode
DemotingAnswer ==
    \/ confirmation.status = "spawn_err"
    \/ /\ confirmation.status = "exited"
       /\ \/ confirmation.code = 0 /\ confirmation.text[1] = "invalid"
          \/ confirmation.code \notin {0, ZenityTimeoutCode}

C9_ConfirmCountMapping ==
    /\ (CountTyped /\ TypedCount > 0)
          => is_playlist /\ playlist_entries = SubSeq(enumerated, 1, Kept)
    /\ KeepAllAnswer => is_playlist /\ playlist_entries = enumerated
    /\ DemotingAnswer =>
          /\ ~is_playlist
          /\ \A i \in Loads : sent[i].url[2] = enumerated[1].id
          /\ Happened("spawn_ok") => positional = enumerated[1].url

\* C10: with enqueueRequested set, a playlist of n kept entries (all of
\* them after a typed 0 or a timeout) and an existing player that accepts
\* the connection and every write, EnqueueExisting issues exactly n pairs
\* of load-append followed by set-last-item-title, one pair per entry in
\* entry order, no load-replace, spawns no process and ends in Success.
C10_EnqueueExistingSendsAllPairs ==
    (pc = "done" /\ enqueue /\ is_playlist /\ path = "EnqueueExisting"
        /\ ~Happened("write_fail")) =>
        LET n == Len(playlist_entries) IN
        /\ KeepAllAnswer => n = total_entries /\ playlist_entries = enumerated
        /\ Len(sent) = 2 * n
        /\ \A i \in 1..n :
              /\ sent[2 * i - 1].verb = "loadfile"
              /\ sent[2 * i - 1].mode = "append"
              /\ sent[2 * i - 1].item = i
              /\ sent[2 * i - 1].url[2] = playlist_entries[i].id
              /\ sent[2 * i - 1].to = "existing"
              /\ sent[2 * i].verb = "set_property"
              /\ sent[2 * i].item = i
              /\ sent[2 * i].title = playlist_entries[i].title
              /\ sent[2 * i].to = "existing"
        /\ \A i \in 1..Len(sent) : sent[i].mode # "replace"
        /\ child = "none"
        /\ ~Happened("spawn_ok") /\ ~Happened("spawn_fail")
        /\ result = Ok

C10_Witness ==
    /\ pc = "done"
    /\ path = "EnqueueExisting"
    /\ is_playlist
    /\ confirmation.code = 0 /\ confirmation.text = <<"num", 0>>
    /\ Len(playlist_entries) = 3
    /\ Len(sent) = 6
    /\ result = Ok

\* C11: a failed resolve (yt-dlp cannot be run, exits non-zero, or prints
\* fewer than two lines) yields exactly (default title, the item's source
\* url, no audio url); the load command of that item is still written, with
\* the raw source url; no invocation ends in failure because of it.
ResolveFailedFor(n) == \E p \in 1..Len(trace) : trace[p] = Ev("resolve_failed", n)
FallbackLoad(cmd, n) ==
    /\ cmd.verb = "loadfile"
    /\ cmd.item = n
    /\ cmd.url = items[n].url
    /\ cmd.url[1] = "src"
    /\ cmd.title = items[n].title
    /\ cmd.audio = NoValue

C11_ResolverFailureFallsBackToRawUrl ==
    \A p \in 1..Len(trace) :
        trace[p][1] = "resolve_failed" =>
            LET n == trace[p][2] IN
            /\ p > 1 /\ trace[p - 1] = Ev("resolve", n)
            \* the call has just returned: the fallback is about to be written
            /\ p = Len(trace) => /\ pc \in {"enq_load", "hp_load"}
                                 /\ result = NoValue
                                 /\ FallbackLoad(pending[1], n)
            \* the next step is the write of the load command for that item
            /\ p < Len(trace) => trace[p + 1] \in {Ev("write_ok", n), Ev("write_fail", n)}
            /\ (p < Len(trace) /\ trace[p + 1] = Ev("write_ok", n))
                  => \E i \in Loads : FallbackLoad(sent[i], n)
            /\ \A i \in Loads : sent[i].item = n => FallbackLoad(sent[i], n)

C11_Witness ==
    /\ pc = "done"
    /\ path = "LaunchNewPlaylist"
    /\ ResolveFailedFor(2)
    /\ \E i \in Loads : FallbackLoad(sent[i], 2) /\ sent[i].mode = "append"
    /\ result = Ok

\* C12: in both LaunchNew paths the error reported when the player cannot
\* be started differs in kind from the error reported when waiting on a
\* started player fails.
WaitFailureKind == ExitMapping([kind |-> "err", code |-> NoCode])[1]

C12_SpawnAndWaitFailureDistinct ==
    (pc = "done" /\ Happened("spawn_fail")) => result[1] # WaitFailureKind

\* C13: the post-spawn polling makes at most 15 connect attempts, stops at
\* the first success (no attempt and no polling sleep follows it), sleeps
\* between consecutive attempts, and after 15 failures leaves the loop with
\* a connection failure instead of blocking.
IsPoll(e) == e[1] \in {"connect_ok", "connect_fail"}
PollSleepEv == Ev("sleep", PollSleepMs)
PollIdx == { p \in 1..Len(trace) : IsPoll(trace[p]) }

C13_PollingBoundedAndStopsAtSuccess ==
    LET P == PollIdx
        Failed == { p \in P : trace[p][1] = "connect_fail" }
    IN
    /\ attempt <= ConnectAttempts
    /\ Cardinality(P) <= ConnectAttempts
    /\ Cardinality(P \ Failed) <= 1
    /\ \A p \in P :
          \* attempts are numbered 0, 1, ..: the first follows the spawn, every
          \* other one follows a failed attempt and the sleep after it
          /\ trace[p][2] \in 0..(ConnectAttempts - 1)
          /\ trace[p][2] = 0 => trace[p - 1] = Ev("spawn_ok", 0)
          /\ trace[p][2] > 0 => /\ trace[p - 1] = PollSleepEv
                                /\ trace[p - 2] = Ev("connect_fail", trace[p][2] - 1)
          /\ trace[p][1] = "connect_ok" =>
                /\ \A q \in P : q <= p
                /\ \A q \in (p + 1)..Len(trace) : trace[q] # PollSleepEv
          /\ (trace[p][1] = "connect_fail" /\ p < Len(trace)) => trace[p + 1] = PollSleepEv
    /\ Cardinality(Failed) = ConnectAttempts =>
          /\ pc \in {"hp_poll_sleep", "hp_no_stream", "done"}
          /\ stream = "none"
          /\ pc = "done" => result = SocketConnectionFailed

C13_Witness ==
    /\ Count("connect_fail") = ConnectAttempts - 1
    /\ \E p \in 1..Len(trace) : trace[p] = Ev("connect_ok", ConnectAttempts - 1)
    /\ pc = "done"
    /\ Happened("wait")

\* C14: in both LaunchNew paths the invocation ends in Success iff the
\* player's exit status is a success code; otherwise in PlayerExited with
\* the raw exit code, or 1 when the status has no code; PlayerExited never
\* carries 0, also after the narrowing to 8 bits.
LastEvent == trace[Len(trace)]

C14_ExitStatusMapping ==
    /\ (pc = "done" /\ Happened("wait")) =>
          /\ path \in {"LaunchNewPlaylist", "LaunchNewSingle"}
          /\ (result = Ok) <=> (LastEvent = Ev("exit_code", 0))
          /\ (LastEvent[1] = "exit_code" /\ LastEvent[2] # 0) => result = PlayerExited(LastEvent[2])
          /\ LastEvent[1] = "exit_signal" => result = PlayerExited(DefaultExitCode)
          /\ result[1] = "PlayerExited" => LastEvent[1] \in {"exit_code", "exit_signal"}
    /\ (path \in {"LaunchNewPlaylist", "LaunchNewSingle"} /\ result = Ok)
          => LastEvent = Ev("exit_code", 0)
    /\ result[1] = "PlayerExited" => result[2] \in 1..(ExitCodeModulus - 1)

C14_Witness ==
    /\ pc = "done"
    /\ path = "LaunchNewPlaylist"
    /\ LastEvent = Ev("exit_signal", 0)
    /\ result = PlayerExited(DefaultExitCode)

\* C15: in LaunchNew/Playlist the first command written on the control
\* connection is load-replace for entry 0, every later loadfile uses mode
\* append, and at most one load-replace is written per invocation.
C15_FirstReplaceThenAppends ==
    /\ Cardinality({ i \in Loads : sent[i].mode = "replace" }) <= 1
    /\ (path = "LaunchNewPlaylist" /\ Len(sent) >= 1) =>
          /\ sent[1].verb = "loadfile"
          /\ sent[1].mode = "replace"
          /\ sent[1].item = 1
          /\ sent[1].url = playlist_entries[1].url
          /\ sent[1].title = playlist_entries[1].title
          /\ \A i \in Loads : i > 1 => sent[i].mode = "append" /\ sent[i].item > 1

C15_Witness ==
    /\ path = "LaunchNewPlaylist"
    /\ Len(sent) = 5
    /\ sent[1].mode = "replace"
    /\ sent[2].mode = "append" /\ sent[4].mode = "append"

\* C16 (as stated): every load-append sent on a control connection is
\* followed, as the next command sent and before any other loadfile, by the
\* set_property playlist/-1/title of the same item; when the invocation
\* ends no append is left without its title assignment.
IsAppend(cmd) == cmd.verb = "loadfile" /\ cmd.mode = "append"
TitleOf(cmd, app) ==
    /\ cmd.verb = "set_property"
    /\ cmd.item = app.item
    /\ cmd.title = app.title
    /\ cmd.to = app.to

C16_EveryAppendGetsItsTitle ==
    \A i \in 1..Len(sent) :
        IsAppend(sent[i]) =>
            /\ i < Len(sent) => TitleOf(sent[i + 1], sent[i])
            /\ pc = "done" => i < Len(sent)

\* C16 (amended): every load-append sent is followed, as the next command
\* sent on that connection, by the title assignment of the same item,
\* unless the write of that title assignment fails: then the append stays
\* without title and nothing more is sent on the connection.
C16_AppendGetsItsTitleUnlessWriteFails ==
    \A i \in 1..Len(sent) :
        /\ IsAppend(sent[i]) =>
              /\ i < Len(sent) => TitleOf(sent[i + 1], sent[i])
              /\ i = Len(sent) =>
                    \/ pc \in {"enq_sleep", "enq_title", "hp_sleep", "hp_title"}
                    \/ /\ \E p \in 1..Len(trace) :
                            /\ trace[p] = Ev("write_fail", sent[i].item)
                            /\ \A q \in (p + 1)..Len(trace) : trace[q][1] \notin BurstEvents
                       /\ pc \in {"hp_forget", "wait", "done"}
        /\ sent[i].verb = "set_property" =>
              i > 1 /\ IsAppend(sent[i - 1]) /\ TitleOf(sent[i], sent[i - 1])

C16_Witness ==
    /\ pc = "done"
    /\ path = "LaunchNewPlaylist"
    /\ Len(sent) = 4
    /\ IsAppend(sent[4])
    /\ TitleOf(sent[3], sent[2])
    /\ \E p \in 1..Len(trace) : trace[p] = Ev("write_fail", 3)

\* C17 (as stated): between any two consecutive writes on the same control
\* connection a sleep occurs: between a load-append and its set-title,
\* between a set-title and the next item's load-append, and between the
\* load-replace and the first load-append, in both paths.
IsWrite(e) == e[1] \in {"write_ok", "write_fail"}
ConsecutiveWrites(p, q) ==
    /\ p < q
    /\ trace[p][1] = "write_ok"
    /\ IsWrite(trace[q])
    /\ \A r \in (p + 1)..(q - 1) : ~IsWrite(trace[r])
SleepsBetween(p, q) == { r \in (p + 1)..(q - 1) : trace[r][1] = "sleep" }
WriteIdx == { p \in 1..Len(trace) : IsWrite(trace[p]) }

C17_SleepBetweenAllWrites ==
    \A p, q \in WriteIdx : ConsecutiveWrites(p, q) => SleepsBetween(p, q) # {}

\* C17 (amended): a sleep (500 ms towards an existing player, 50 ms towards
\* a spawned one) occurs between each load-append and the set-title of the
\* same item; between a set-title and the next item's load-append, and
\* between the load-replace and the first load-append, there is no sleep,
\* only the resolve call of the next item.
BurstSleepMs == IF path = "EnqueueExisting" THEN EnqueueSleepMs ELSE AppendSleepMs

C17_SleepOnlyBetweenAppendAndTitle ==
    \A p, q \in WriteIdx :
        ConsecutiveWrites(p, q) =>
            IF trace[p][2] = trace[q][2]
            THEN /\ Cardinality(SleepsBetween(p, q)) = 1
                 /\ \A r \in SleepsBetween(p, q) : trace[r] = Ev("sleep", BurstSleepMs)
                 /\ q = p + 2
            ELSE /\ SleepsBetween(p, q) = {}
                 /\ trace[q][2] = trace[p][2] + 1
                 /\ \E r \in (p + 1)..(q - 1) : trace[r] = Ev("resolve", trace[q][2])

C17_Witness ==
    /\ path = "LaunchNewPlaylist"
    /\ Len(sent) = 5
    /\ \E p, q \in WriteIdx :
          ConsecutiveWrites(p, q) /\ trace[p][2] = 1 /\ trace[q][2] = 2
    /\ \E p, q \in WriteIdx :
          ConsecutiveWrites(p, q) /\ trace[p][2] = 2 /\ trace[q][2] = 3
    /\ \E p, q \in WriteIdx :
          ConsecutiveWrites(p, q) /\ trace[p][2] = 3 /\ trace[q][2] = 3

\* C18: in LaunchNew/Playlist the control connection, once opened, is not
\* closed by this invocation while the spawned player is still running,
\* also when the load-replace write or an append write fails.
C18_StreamOutlivesPlayer ==
    (path = "LaunchNewPlaylist" /\ stream = "closed") => child = "reaped"

\* C19: resolution is lazy and per item, in the EnqueueExisting loop and in
\* the append loop of LaunchNew/Playlist: item i is resolved only after all
\* commands of the items before it have been written, each item is resolved
\* at most once, and nothing is resolved after a failed write.
WritesExpected(j) == IF path = "LaunchNewPlaylist" /\ j = 1 THEN 1 ELSE 2
ResolveIdx == { p \in 1..Len(trace) : trace[p][1] = "resolve" }
Resolves(i) == { p \in 1..Len(trace) : trace[p] = Ev("resolve", i) }

C19_ResolutionLazyPerItem ==
    LET R == ResolveIdx
        W == WriteIdx
    IN
    /\ \A p, q \in R : trace[p][2] = trace[q][2] => p = q
    /\ \A p \in R :
          LET i == trace[p][2] IN
          /\ i \in 1..Len(items)
          /\ path \in {"EnqueueExisting", "LaunchNewPlaylist"}
          /\ \A j \in 1..(i - 1) :
                Cardinality({ q \in W : q < p /\ trace[q] = Ev("write_ok", j) })
                    = WritesExpected(j)
          /\ \A q \in W : q < p => trace[q][1] = "write_ok" /\ trace[q][2] < i
          \* no later item is resolved before this one's load is written
          /\ \A q \in R : q > p =>
                \E r \in W : p < r /\ r < q /\ trace[r] = Ev("write_ok", i)
    \* every item written, the replaced first item apart, was resolved before
    /\ \A q \in W : (path = "EnqueueExisting" \/ trace[q][2] > 1) =>
          \E p \in R : p < q /\ trace[p][2] = trace[q][2]

C19_Witness ==
    /\ pc = "done"
    /\ path = "EnqueueExisting"
    /\ Len(items) = 3
    /\ \A i \in 1..3 : Cardinality(Resolves(i)) = 1
    /\ Len(sent) = 6

\* C20 (as stated): in every LaunchNew spawn --input-ipc-server is passed
\* iff enqueueRequested is set, the idle-start flag iff the playlist path is
\* taken, and the raw intent url as trailing positional argument iff the
\* SingleItem path is taken.
Launched == path \in {"LaunchNewPlaylist", "LaunchNewSingle"}

SkippedIds == { trace[p][2] : p \in { q \in 1..Len(trace) : trace[q][1] = "skip" } }
KeptIds == { enumerated[i].id : i \in 1..Len(enumerated) }
ReferencedIds ==
    { items[i].id : i \in 1..Len(items) }
    \cup UNION { {sent[i].url[2], sent[i].title[2], sent[i].audio[2]} : i \in 1..Len(sent) }
    \cup { positional[2] }

C21_SentinelEntriesDropped ==
    /\ SkippedIds \cap KeptIds = {}
    /\ \A i, j \in 1..Len(enumerated) : i < j => enumerated[i].id < enumerated[j].id
    /\ pc # "enumerate" => total_entries = Len(enumerated)
    /\ playlist_entries = SubSeq(enumerated, 1, Len(playlist_entries))
    /\ pc = "confirm" => Len(enumerated) > 1
    /\ pc \notin {"enumerate", "confirm"} =>
          (confirmation # NotAsked <=> Len(enumerated) > 1)
    /\ \A p \in { q \in 1..Len(trace) : trace[q][1] \in {"enumerate", "confirm"} } :
          trace[p][2] = Len(enumerated)
    /\ ReferencedIds \cap SkippedIds = {}
    /\ ReferencedIds \subseteq KeptIds \cup {IntentId}

\* a skipped line between two kept ones, all kept entries loaded
C21_Witness ==
    /\ SkippedIds = {2}
    /\ Len(enumerated) = 2
    /\ enumerated[1].id = 1 /\ enumerated[2].id = 3
    /\ confirmation # NotAsked
    /\ BurstComplete
    /\ LoadedIds = <<1, 3>>


\* C22: whenever the invocation polls the control socket of the idle player
\* it spawned, that player was launched with the control-socket-address
\* flag, and the invocation never ends in SocketConnectionFailed for a
\* player that was not told to open the socket; with enqueue set or unset.
C22_PolledPlayerWasToldItsSocket ==
    /\ PollIdx # {} => IpcFlag \in options
    /\ (pc = "done" /\ result = SocketConnectionFailed) => IpcFlag \in options


\* C23: in the LaunchNew/Playlist path the invocation does not begin to wait
\* for the idle player it spawned unless the load-replace of the first entry
\* was written to that player, for every Config, also one without a
\* control-socket address.
FirstLoadWrittenToSpawned ==
    \E i \in 1..Len(sent) :
        /\ sent[i].verb = "loadfile"
        /\ sent[i].mode = "replace"
        /\ sent[i].item = 1
        /\ sent[i].to = "spawned"

C23_WaitOnlyAfterFirstLoad ==
    (path = "LaunchNewPlaylist" /\ (pc = "wait" \/ Happened("wait")))
        => FirstLoadWrittenToSpawned


\* C24: in every reachable state the playlist flag implies a non-empty entry
\* list: the list had more than one entry before truncation and a typed
\* count that truncates is at least 1, so the helper's access to entry 0 is
\* in bounds for every confirmation answer, counts 1 and counts larger than
\* the list included.
Panicked == <<"Panic", 0>>

C24_PlaylistFlagImpliesEntries ==
    /\ is_playlist =>
          /\ Len(playlist_entries) >= 1
          /\ Len(enumerated) > 1
          /\ (CountTyped /\ TypedCount > 0) =>
                Len(playlist_entries) = Min(TypedCount, Len(enumerated))
          /\ ~(CountTyped /\ TypedCount > 0) => playlist_entries = enumerated
    /\ path = "LaunchNewPlaylist" => is_playlist
    /\ pc = "hp_first" => Len(items) >= 1 /\ items = playlist_entries
    /\ result # Panicked

\* the count 1 leaves one entry, which the helper loads as entry 0
C24_Witness ==
    /\ is_playlist
    /\ CountTyped /\ TypedCount = 1
    /\ Len(enumerated) = 3
    /\ Len(playlist_entries) = 1
    /\ path = "LaunchNewPlaylist"
    /\ Cardinality(Loads) = 1
    /\ \A i \in Loads : sent[i].item = 1 /\ sent[i].url = playlist_entries[1].url
    /\ Happened("forget")

====
